---- MODULE Spec2Model ----
(***************************************************************************)
(* Model of the in-memory broker and get_broker (streaming/                *)
(* kafka_broker.py), of the streaming consumer and its alert-rule table    *)
(* (streaming/kafka_consumer.py) and of the file-based consumer            *)
(* (streaming/streaming_consumer.py).                                      *)
(*                                                                         *)
(* Every thread of the program is a process with a program counter.  One   *)
(* step of a process is one statement (or one lock-protected stretch) of   *)
(* the Python code.  A call that begins with `with self.lock:` begins at   *)
(* the step that takes the lock; a timeout-bounded queue.put / queue.get   *)
(* is one step taken at the moment the call completes: with room (an item) *)
(* it puts (gets); taken while the queue is full (empty) it is the expiry  *)
(* of the timeout.  Waiting is the thread not having taken that step yet.  *)
(***************************************************************************)
EXTENDS Integers, Sequences, FiniteSets, TLC

\* ------------------------------------------------------------------ bounds
\* number of publish calls made in one behaviour
MaxMsgs == 3
\* number of publish calls in a behaviour with polling loops
MaxPollMsgs == 2
\* queue.Queue(maxsize=1000), scaled down so that a full queue is reachable
maxsize == 2
\* callbacks registered per topic in one behaviour
MaxSubs == 1
\* number of publish calls in a behaviour with the streaming consumer
MaxConsumerMsgs == 2
\* lines of the JSONL file
MaxLines == 3
\* evaluations of one line that are told apart (the last stands for "or more")
MaxEvals == 2

Callers == {"t1", "t2"}
Pollers == {"p1"}
\* the main thread of kafka_consumer.py, which runs KafkaStreamingConsumer.start
Consumers == {"c1"}
Threads == Callers \cup Pollers \cup Consumers
TopicNames == {"A", "B"}
\* the topic the polling loops are run on
PollTopics == {"A"}
Callbacks == {"cb1"}
\* a dict payload (stamped by publish, hence truthy) and a falsy non-dict one
Payloads == {"dict", "falsy"}

NoThread == "none"
NoTopic == "-"
NoCallback == "-"
NoMsg == [id |-> 0, kind |-> "none", by |-> "none", stamped |-> FALSE]
NoBody == [ident |-> "none", values |-> <<>>, nonnumeric |-> {}]
NoSummary == "none"
NoWire == <<>>
NoRecord == <<>>
None == 0
Messages == [id : 1..MaxMsgs, kind : Payloads, by : Callers, stamped : BOOLEAN]

VARIABLES
  topics,       \* self.topics: the queue object bound to each name, named by
                \* the thread that created it (NoThread: the key is absent)
  queue,        \* queue[t][th]: contents of the Queue thread th created for name t
  subscribers,  \* self.subscribers[t]
  lock,         \* holder of self.lock, or NoThread
  running,      \* self.running
  pc,           \* position of each thread
  topic,        \* topic_name argument of the call in progress
  msg,          \* message argument (publish) or local `message` (consume)
  cb,           \* callback argument
  nested,       \* caller of a create_topic called from publish / subscribe
  holds,        \* the queue object a consume got from self.topics[topic_name]
  snap,         \* history: queue contents when a publish took the lock
  nextId,       \* history: identity of the next published message
  published,    \* history: <<message, topic>> of every publish that returned True
  dropped,      \* history: messages whose publish returned False
  consumed,     \* history: per topic, the messages dequeued, in dequeue order
  invoked,      \* history: <<callback, message>> of every callback invocation
  reading,      \* rule engine: the `values` mapping under evaluation
  ruleIdx,      \* rule engine: index of the next rule of the loop
  alerts_triggered, \* rule engine: names of the rules triggered so far
  created,      \* rule engine: the create_alert calls made, in order
  processed_count,  \* consumer: self.processed_count
  alert_count,      \* consumer: self.alert_count
  readings_saved,   \* consumer: self.readings_saved
  body,         \* consumer: the fields of the dict `message` of process_message
  alert_stored, \* history: for each create_alert call, whether its commit succeeded
  save_calls,   \* history: calls of save_reading_to_database for `message`
  raised,       \* history: the except clause of process_message ran for `message`
  evaluated,    \* history: per message, how often the rule loop was entered for it
  returned,     \* history: the messages for which process_message has returned
  unsaved,      \* history: messages processed whose reading was not stored
  malformed,    \* history: messages processed that lack sensor_id or timestamp
  summary,      \* history: the counters logged by the [FINAL] line, or NoSummary
  wire,         \* wire shapes: the dict `message` as it came off the topic
  stored,       \* wire shapes: the metric columns of the FactWeatherReading row
  _broker,      \* get_broker: the module global _broker (an instance, or None)
  instances,    \* get_broker: number of KafkaBroker objects constructed
  gb,           \* get_broker: position of each thread inside get_broker
  fresh,        \* get_broker: the KafkaBroker a thread has just constructed
  got,          \* history: the instance the last get_broker call of a thread returned
  file,         \* file consumer: the lines of the JSONL file
  processed_lines,  \* file consumer: self.processed_lines (line numbers of the file)
  line_num,     \* file consumer: line_num of the loop of process_jsonl, 0 outside it
  line_evals    \* history: per line, how often process_record was called on it

registry == <<topics, queue, subscribers>>
locals == <<topic, msg, cb, nested, holds, snap>>
history == <<nextId, published, dropped, consumed, invoked>>
ruleVars == <<reading, ruleIdx, alerts_triggered, created>>
counters == <<processed_count, alert_count, readings_saved>>
consumerVars == <<processed_count, alert_count, readings_saved, body, alert_stored,
                  save_calls, raised, evaluated, returned, unsaved, malformed,
                  summary>>
wireVars == <<wire, stored>>
globalVars == <<_broker, instances, gb, fresh, got>>
fileVars == <<file, processed_lines, line_num, line_evals>>
otherVars == <<wire, stored, _broker, instances, gb, fresh, got,
               file, processed_lines, line_num, line_evals>>
vars == <<topics, queue, subscribers, lock, running, pc, topic, msg, cb,
          nested, holds, snap, nextId, published, dropped, consumed, invoked,
          reading, ruleIdx, alerts_triggered, created,
          processed_count, alert_count, readings_saved, body, alert_stored,
          save_calls, raised, evaluated, returned, unsaved, malformed, summary,
          wire, stored, _broker, instances, gb, fresh, got,
          file, processed_lines, line_num, line_evals>>

\* ------------------------------------------------------- pure helpers
\* publish lines 36-37: a dict message gets a kafka_timestamp
Stamp(m) == IF m.kind = "dict" THEN [m EXCEPT !.stamped = TRUE] ELSE m

\* Python truth value of a message: a stamped dict is non-empty
Truthy(m) == m.kind = "dict"

\* variants of PutResult: a queue without maxsize; a put that evicts the oldest
\* message of a full queue; a put whose success is not reported
PutResult_unbounded(q, m) == [ok |-> TRUE, q |-> Append(q, m)]

PutResult_dropOldest(q, m) ==
  IF Len(q) < maxsize
    THEN [ok |-> TRUE, q |-> Append(q, m)]
    ELSE [ok |-> FALSE, q |-> Append(Tail(q), m)]

PutResult_unreported(q, m) ==
  IF Len(q) < maxsize
    THEN [ok |-> FALSE, q |-> Append(q, m)]
    ELSE [ok |-> FALSE, q |-> q]

\* publish lines 39-44: put with timeout; Full => drop
PutResult(q, m) ==
  IF Len(q) < maxsize
    THEN [ok |-> TRUE, q |-> Append(q, m)]
    ELSE [ok |-> FALSE, q |-> q]

\* variant of GetResult: the head is returned and left in the queue
GetResult_peek(q) ==
  IF Len(q) > 0
    THEN [ok |-> TRUE, m |-> Head(q), q |-> q]
    ELSE [ok |-> FALSE, m |-> NoMsg, q |-> q]

\* consume lines 55-58: get with timeout; Empty => None
GetResult(q) ==
  IF Len(q) > 0
    THEN [ok |-> TRUE, m |-> Head(q), q |-> Tail(q)]
    ELSE [ok |-> FALSE, m |-> NoMsg, q |-> q]

\* variant of CreateNeeded: the topic is created anew on every call
CreateNeeded_always(t, tps) == TRUE

\* create_topic line 24
CreateNeeded(t, tps) == t \notin tps

\* publish line 32, subscribe line 49
TopicMissing(t, tps) == t \notin tps

\* the keys of self.topics
Keys == {t \in TopicNames : topics[t] # NoThread}

\* the contents of the queue bound to name t
Pending(t) == IF topics[t] = NoThread THEN <<>> ELSE queue[t][topics[t]]

\* get_stats lines 79-83
Stats == [t \in Keys |-> [messages_pending |-> Len(Pending(t)),
                            subscribers |-> Len(subscribers[t])]]

\* ------------------------------------------------------------ initial state
BrokerInit ==
  /\ topics = [t \in TopicNames |-> NoThread]
  /\ queue = [t \in TopicNames |-> [th \in Threads |-> <<>>]]
  /\ subscribers = [t \in TopicNames |-> <<>>]
  /\ lock = NoThread
  /\ running = TRUE
  /\ pc = [th \in Threads |-> IF th \in Callers THEN "idle"
                            ELSE IF th \in Pollers THEN "unstarted" ELSE "created"]
  /\ topic = [th \in Threads |-> NoTopic]
  /\ msg = [th \in Threads |-> NoMsg]
  /\ cb = [th \in Threads |-> NoCallback]
  /\ nested = [th \in Threads |-> "none"]
  /\ holds = [th \in Threads |-> NoThread]
  /\ snap = [th \in Threads |-> <<>>]
  /\ nextId = 1
  /\ published = {}
  /\ dropped = {}
  /\ consumed = [t \in TopicNames |-> <<>>]
  /\ invoked = {}

RuleIdle ==
  /\ reading = <<>>
  /\ ruleIdx = 0
  /\ alerts_triggered = <<>>
  /\ created = <<>>

\* KafkaStreamingConsumer.__init__, lines 115-117
ConsumerInit ==
  /\ processed_count = 0
  /\ alert_count = 0
  /\ readings_saved = 0
  /\ body = NoBody
  /\ alert_stored = <<>>
  /\ save_calls = 0
  /\ raised = FALSE
  /\ evaluated = [i \in 1..MaxConsumerMsgs |-> 0]
  /\ returned = {}
  /\ unsaved = 0
  /\ malformed = 0
  /\ summary = NoSummary

\* no message is being mapped
WireIdle ==
  /\ wire = NoWire
  /\ stored = NoRecord

\* kafka_broker.py line 92: _broker = None; nobody is inside get_broker
GlobalInit ==
  /\ _broker = None
  /\ instances = 0
  /\ gb = [th \in Threads |-> "out"]
  /\ fresh = [th \in Threads |-> None]
  /\ got = [th \in Threads |-> None]

\* no file is being processed
FileIdle ==
  /\ file = <<>>
  /\ processed_lines = {}
  /\ line_num = 0
  /\ line_evals = <<>>

Init == BrokerInit /\ RuleIdle /\ ConsumerInit /\ WireIdle /\ GlobalInit /\ FileIdle

\* a call returns to its caller: the frame's locals are gone
Return(th) ==
  /\ pc' = [pc EXCEPT ![th] = "idle"]
  /\ topic' = [topic EXCEPT ![th] = NoTopic]
  /\ msg' = [msg EXCEPT ![th] = NoMsg]
  /\ cb' = [cb EXCEPT ![th] = NoCallback]
  /\ nested' = [nested EXCEPT ![th] = "none"]
  /\ holds' = [holds EXCEPT ![th] = NoThread]
  /\ snap' = [snap EXCEPT ![th] = <<>>]

\* --------------------------------------------------------------- create_topic
\* lines 23-24: `with self.lock:` and the test.  The call comes from a user
\* thread, or from publish (line 33) or subscribe (line 50), which hold the lock
\* already; threading.Lock is not reentrant.
CreateTopicEnter(th, t) ==
  /\ \/ pc[th] = "idle"
     \/ pc[th] = "ct_lock" /\ topic[th] = t
  /\ lock = NoThread
  /\ lock' = th
  /\ topic' = [topic EXCEPT ![th] = t]
  /\ pc' = [pc EXCEPT ![th] = IF CreateNeeded(t, Keys) THEN "ct_assign" ELSE "ct_exit"]
  /\ UNCHANGED <<registry, running, msg, cb, nested, holds, snap, history, ruleVars, consumerVars, otherVars>>

\* create_topic returns to the user, or into publish (line 36) or subscribe
\* (line 51), whose `with` block goes on after the inner one released the lock
ReturnFromCreate(th) ==
  IF nested[th] = "none"
    THEN Return(th)
    ELSE /\ pc' = [pc EXCEPT ![th] = IF nested[th] = "publish" THEN "pub_put" ELSE "sub_append"]
         /\ nested' = [nested EXCEPT ![th] = "none"]
         /\ UNCHANGED <<topic, msg, cb, holds, snap>>

\* lines 25-27: a new Queue and a new subscriber list are bound to the name; a
\* consume that already fetched the queue bound before keeps polling that one
CreateTopicAssign(th) ==
  /\ pc[th] = "ct_assign"
  /\ topics' = [topics EXCEPT ![topic[th]] = th]
  /\ queue' = [queue EXCEPT ![topic[th]][th] = <<>>]
  /\ subscribers' = [subscribers EXCEPT ![topic[th]] = <<>>]
  /\ lock' = NoThread
  /\ ReturnFromCreate(th)
  /\ UNCHANGED <<running, history, ruleVars, consumerVars, otherVars>>

\* line 24 false: nothing to do, the `with` block ends
CreateTopicExit(th) ==
  /\ pc[th] = "ct_exit"
  /\ lock' = NoThread
  /\ ReturnFromCreate(th)
  /\ UNCHANGED <<registry, running, history, ruleVars, consumerVars, otherVars>>

\* -------------------------------------------------------------------- publish
\* lines 31-33: take the lock; an absent topic => self.create_topic(topic_name)
PublishEnter(th, t, k, n) ==
  /\ pc[th] = "idle"
  /\ nextId <= n
  /\ lock = NoThread
  /\ lock' = th
  /\ msg' = [msg EXCEPT ![th] = [id |-> nextId, kind |-> k, by |-> th, stamped |-> FALSE]]
  /\ nextId' = nextId + 1
  /\ topic' = [topic EXCEPT ![th] = t]
  /\ snap' = [snap EXCEPT ![th] = Pending(t)]
  /\ IF TopicMissing(t, Keys)
       THEN /\ pc' = [pc EXCEPT ![th] = "ct_lock"]
            /\ nested' = [nested EXCEPT ![th] = "publish"]
       ELSE /\ pc' = [pc EXCEPT ![th] = "pub_put"]
            /\ UNCHANGED nested
  /\ UNCHANGED <<registry, running, cb, holds, published, dropped, consumed,
                 invoked, ruleVars, consumerVars, otherVars>>

\* lines 36-44: stamp, put(message, timeout=1), return True / False; lock released
PublishPut(th) ==
  /\ pc[th] = "pub_put"
  /\ LET m == Stamp(msg[th])
         r == PutResult(Pending(topic[th]), m)
     IN /\ queue' = [queue EXCEPT ![topic[th]][topics[topic[th]]] = r.q]
        /\ published' = IF r.ok THEN published \cup {<<m, topic[th]>>} ELSE published
        /\ dropped' = IF r.ok THEN dropped ELSE dropped \cup {m}
  /\ lock' = NoThread
  /\ Return(th)
  /\ UNCHANGED <<topics, subscribers, running, nextId, consumed, invoked, ruleVars, consumerVars, otherVars>>

\* ------------------------------------------------------------------ subscribe
\* lines 48-50
SubscribeEnter(th, t, c) ==
  /\ pc[th] = "idle"
  /\ Len(subscribers[t]) < MaxSubs
  /\ lock = NoThread
  /\ lock' = th
  /\ topic' = [topic EXCEPT ![th] = t]
  /\ cb' = [cb EXCEPT ![th] = c]
  /\ IF TopicMissing(t, Keys)
       THEN /\ pc' = [pc EXCEPT ![th] = "ct_lock"]
            /\ nested' = [nested EXCEPT ![th] = "subscribe"]
       ELSE /\ pc' = [pc EXCEPT ![th] = "sub_append"]
            /\ UNCHANGED nested
  /\ UNCHANGED <<registry, running, msg, holds, snap, history, ruleVars, consumerVars, otherVars>>

\* line 51: the callback is appended; subscribe starts no thread
SubscribeAppend(th) ==
  /\ pc[th] = "sub_append"
  /\ subscribers' = [subscribers EXCEPT ![topic[th]] = Append(@, cb[th])]
  /\ lock' = NoThread
  /\ Return(th)
  /\ UNCHANGED <<topics, queue, running, history, ruleVars, consumerVars, otherVars>>

\* -------------------------------------------------------------------- consume
\* line 56, self.topics[topic_name], no lock held: the queue bound to the name;
\* for an absent name the defaultdict calls its factory (Python code, other
\* threads run meanwhile) before it binds the new Queue
ConsumeLookup(th, t) ==
  /\ pc[th] = "idle"
  /\ topic' = [topic EXCEPT ![th] = t]
  /\ IF t \in Keys
       THEN /\ holds' = [holds EXCEPT ![th] = topics[t]]
            /\ pc' = [pc EXCEPT ![th] = "con_get"]
       ELSE /\ pc' = [pc EXCEPT ![th] = "con_new"]
            /\ UNCHANGED holds
  /\ UNCHANGED <<registry, lock, running, msg, cb, nested, snap, history, ruleVars, consumerVars, otherVars>>

\* line 16 / line 56, defaultdict.__missing__: the Queue the factory made is bound
\* to the name, whatever was bound to it meanwhile, and returned
ConsumeInsert(th) ==
  /\ pc[th] = "con_new"
  /\ topics' = [topics EXCEPT ![topic[th]] = th]
  /\ queue' = [queue EXCEPT ![topic[th]][th] = <<>>]
  /\ holds' = [holds EXCEPT ![th] = th]
  /\ pc' = [pc EXCEPT ![th] = "con_get"]
  /\ UNCHANGED <<subscribers, lock, running, topic, msg, cb, nested, snap,
                 history, ruleVars, consumerVars, otherVars>>

\* lines 56-58, .get(timeout=timeout) on the queue fetched: its head, or None on Empty
ConsumeGet(th) ==
  /\ pc[th] = "con_get"
  /\ th \in Callers
  /\ LET r == GetResult(queue[topic[th]][holds[th]])
     IN /\ queue' = [queue EXCEPT ![topic[th]][holds[th]] = r.q]
        /\ consumed' = IF r.ok
                         THEN [consumed EXCEPT ![topic[th]] = Append(@, r.m)]
                         ELSE consumed
  /\ Return(th)
  /\ UNCHANGED <<topics, subscribers, lock, running, nextId, published, dropped,
                 invoked, ruleVars, consumerVars, otherVars>>

\* ------------------------------------------------------------------ get_stats
\* lines 78-79: take the lock, start iterating self.topics.items()
GetStatsEnter(th) ==
  /\ pc[th] = "idle"
  /\ lock = NoThread
  /\ lock' = th
  /\ pc' = [pc EXCEPT ![th] = "gs_iter"]
  /\ UNCHANGED <<registry, running, locals, history, ruleVars, consumerVars, otherVars>>

\* lines 79-84: the iteration ends (with Stats, or with the RuntimeError of a
\* dict that changed size meanwhile) and the lock is released
GetStatsReturn(th) ==
  /\ pc[th] = "gs_iter"
  /\ lock' = NoThread
  /\ Return(th)
  /\ UNCHANGED <<registry, running, history, ruleVars, consumerVars, otherVars>>

\* ----------------------------------------------------------------------- stop
\* variant of Stop: the pending messages of every topic are discarded as well
Stop_drains(th) ==
  /\ pc[th] = "idle"
  /\ running' = FALSE
  /\ queue' = [t \in TopicNames |-> [x \in Threads |-> <<>>]]
  /\ UNCHANGED <<topics, subscribers, lock, pc, locals, history, ruleVars, consumerVars, otherVars>>

\* lines 86-88
Stop(th) ==
  /\ pc[th] = "idle"
  /\ running' = FALSE
  /\ UNCHANGED <<registry, lock, pc, locals, history, ruleVars, consumerVars, otherVars>>

\* ------------------------------------------------------ start_consumer_thread
\* lines 71-73: Thread(target=consumer_loop, daemon=True).start()
StartConsumerThread(th, t, c, p) ==
  /\ pc[th] = "idle"
  /\ pc[p] = "unstarted"
  /\ pc' = [pc EXCEPT ![p] = "pl_while"]
  /\ topic' = [topic EXCEPT ![p] = t]
  /\ cb' = [cb EXCEPT ![p] = c]
  /\ UNCHANGED <<registry, lock, running, msg, nested, holds, snap, history, ruleVars, consumerVars, otherVars>>

\* variant of PollerWhile: `while True`, the loop never reads self.running
PollerWhile_forever(p) ==
  /\ pc[p] = "pl_while"
  /\ IF topic[p] \in Keys
       THEN /\ holds' = [holds EXCEPT ![p] = topics[topic[p]]]
            /\ pc' = [pc EXCEPT ![p] = "con_get"]
       ELSE /\ pc' = [pc EXCEPT ![p] = "con_new"]
            /\ UNCHANGED holds
  /\ UNCHANGED <<registry, lock, running, topic, msg, cb, nested, snap, history, ruleVars, consumerVars, otherVars>>

\* lines 63-64: while self.running: self.consume(topic_name, ...) looks the topic up
PollerWhile(p) ==
  /\ pc[p] = "pl_while"
  /\ IF ~running
       THEN /\ pc' = [pc EXCEPT ![p] = "pl_done"]
            /\ UNCHANGED holds
       ELSE IF topic[p] \in Keys
         THEN /\ holds' = [holds EXCEPT ![p] = topics[topic[p]]]
              /\ pc' = [pc EXCEPT ![p] = "con_get"]
         ELSE /\ pc' = [pc EXCEPT ![p] = "con_new"]
              /\ UNCHANGED holds
  /\ UNCHANGED <<registry, lock, running, topic, msg, cb, nested, snap, history, ruleVars, consumerVars, otherVars>>

\* lines 64-69: message = the head of the queue fetched, or None; if message:
\* callback(message), whatever the callback raises
PollerGet(p) ==
  /\ pc[p] = "con_get"
  /\ p \in Pollers
  /\ LET r == GetResult(queue[topic[p]][holds[p]])
     IN /\ queue' = [queue EXCEPT ![topic[p]][holds[p]] = r.q]
        /\ consumed' = IF r.ok
                         THEN [consumed EXCEPT ![topic[p]] = Append(@, r.m)]
                         ELSE consumed
        /\ invoked' = IF r.ok /\ Truthy(r.m)
                        THEN invoked \cup {<<cb[p], r.m>>}
                        ELSE invoked
  /\ pc' = [pc EXCEPT ![p] = "pl_while"]
  /\ holds' = [holds EXCEPT ![p] = NoThread]
  /\ UNCHANGED <<topics, subscribers, lock, running, topic, msg, cb, nested, snap,
                 nextId, published, dropped, ruleVars, consumerVars, otherVars>>

\* ------------------------------------------------------------- specification
\* a user thread calls the data path of the broker: topics T, payloads K, at
\* most n publishes
Call(th, T, K, n) ==
  \/ \E t \in T : CreateTopicEnter(th, t)
  \/ \E t \in T, k \in K : PublishEnter(th, t, k, n)
  \/ \E t \in T : ConsumeLookup(th, t)

\* a user thread subscribes a callback or asks for the statistics
Admin(th, T) ==
  \/ \E t \in T, c \in Callbacks : SubscribeEnter(th, t, c)
  \/ GetStatsEnter(th)

\* a step of a call in progress
RunStep(th) ==
  \/ CreateTopicAssign(th)
  \/ CreateTopicExit(th)
  \/ PublishPut(th)
  \/ ConsumeInsert(th)
  \/ ConsumeGet(th)

AdminStep(th) ==
  \/ SubscribeAppend(th)
  \/ GetStatsReturn(th)

\* a step of a loop started by start_consumer_thread
PollStep(p) ==
  \/ PollerWhile(p)
  \/ ConsumeInsert(p)
  \/ PollerGet(p)

\* a thread inside create_topic called from publish or subscribe waits for the lock
NestedCreate(th) == pc[th] = "ct_lock" /\ CreateTopicEnter(th, topic[th])

\* Producers and consumers calling the broker directly, on two topics.
Next ==
  \/ \E th \in Callers : Call(th, TopicNames, {"dict"}, MaxMsgs)
  \/ \E th \in Callers : RunStep(th)

Spec == Init /\ [][Next]_vars

\* Every operation of the broker, with a polling loop, on one topic.
NextPoll ==
  \/ \E th \in Callers : Call(th, PollTopics, {"dict"}, MaxPollMsgs)
  \/ \E th \in Callers : Admin(th, PollTopics)
  \/ \E th \in Callers, t \in PollTopics, c \in Callbacks, p \in Pollers :
       StartConsumerThread(th, t, c, p)
  \/ \E th \in Callers : Stop(th)
  \/ \E th \in Callers : RunStep(th)
  \/ \E th \in Callers : AdminStep(th)
  \/ \E p \in Pollers : PollStep(p)

SpecPoll == Init /\ [][NextPoll]_vars

\* Threads are scheduled: a step of a call or of a loop in progress that stays
\* possible is taken, and a waiting thread gets a lock that is free again and
\* again. User threads need not call.
FairSpecPoll ==
  /\ SpecPoll
  /\ \A th \in Callers : WF_vars(RunStep(th))
  /\ \A th \in Callers : WF_vars(AdminStep(th))
  /\ \A th \in Callers : SF_vars(NestedCreate(th))
  /\ \A p \in Pollers : WF_vars(PollStep(p))

\* One producer, payloads of both kinds, and a polling loop that is started and
\* stopped: the broker as kafka_broker.py's own __main__ block and a
\* start_consumer_thread user drive it.
LoopCall(th) ==
  \/ \E t \in PollTopics : CreateTopicEnter(th, t)
  \/ \E t \in PollTopics, k \in Payloads : PublishEnter(th, t, k, MaxPollMsgs)
  \/ \E t \in PollTopics, c \in Callbacks, p \in Pollers : StartConsumerThread(th, t, c, p)
  \/ Stop(th)

LoopRun(th) ==
  \/ CreateTopicAssign(th)
  \/ CreateTopicExit(th)
  \/ PublishPut(th)

NextLoop ==
  \/ LoopCall("t1")
  \/ LoopRun("t1")
  \/ \E p \in Pollers : PollStep(p)

SpecLoop == Init /\ [][NextLoop]_vars

\* The producer's call in progress and the polling loop are scheduled.
FairSpecLoop ==
  /\ SpecLoop
  /\ WF_vars(LoopRun("t1"))
  /\ \A p \in Pollers : WF_vars(PollStep(p))

\* ---------------------------------------------------------------- alert rules
\* variant of ALERT_RULES: LOW_TEMP below 50, overlapping HIGH_TEMP above 40
ALERT_RULES_overlapping == <<
  [name |-> "HIGH_TEMP", metric |-> "temperature", condition |-> ">", threshold |-> 40, severity |-> "CRITICAL"],
  [name |-> "LOW_TEMP", metric |-> "temperature", condition |-> "<", threshold |-> 50, severity |-> "WARNING"],
  [name |-> "LOW_HUMIDITY", metric |-> "humidity", condition |-> "<", threshold |-> 20, severity |-> "WARNING"],
  [name |-> "HIGH_HUMIDITY", metric |-> "humidity", condition |-> ">", threshold |-> 90, severity |-> "WARNING"],
  [name |-> "HIGH_WIND", metric |-> "wind_speed", condition |-> ">", threshold |-> 50, severity |-> "WARNING"],
  [name |-> "LOW_PRESSURE", metric |-> "pressure", condition |-> "<", threshold |-> 980, severity |-> "WARNING"],
  [name |-> "HIGH_PRESSURE", metric |-> "pressure", condition |-> ">", threshold |-> 1040, severity |-> "WARNING"] >>

\* kafka_consumer.py lines 82-90 (thresholds 40.0, 0.0, ... as integers)
ALERT_RULES == <<
  [name |-> "HIGH_TEMP", metric |-> "temperature", condition |-> ">", threshold |-> 40, severity |-> "CRITICAL"],
  [name |-> "LOW_TEMP", metric |-> "temperature", condition |-> "<", threshold |-> 0, severity |-> "WARNING"],
  [name |-> "LOW_HUMIDITY", metric |-> "humidity", condition |-> "<", threshold |-> 20, severity |-> "WARNING"],
  [name |-> "HIGH_HUMIDITY", metric |-> "humidity", condition |-> ">", threshold |-> 90, severity |-> "WARNING"],
  [name |-> "HIGH_WIND", metric |-> "wind_speed", condition |-> ">", threshold |-> 50, severity |-> "WARNING"],
  [name |-> "LOW_PRESSURE", metric |-> "pressure", condition |-> "<", threshold |-> 980, severity |-> "WARNING"],
  [name |-> "HIGH_PRESSURE", metric |-> "pressure", condition |-> ">", threshold |-> 1040, severity |-> "WARNING"] >>

\* variant of check: '>' and '<' admit the threshold itself
check_inclusive(rule, value) ==
  CASE rule.condition \in {">", ">="} -> value >= rule.threshold
    [] rule.condition \in {"<", "<="} -> value <= rule.threshold
    [] OTHER -> FALSE

\* AlertRule.check, lines 69-79
check(rule, value) ==
  CASE rule.condition = ">" -> value > rule.threshold
    [] rule.condition = "<" -> value < rule.threshold
    [] rule.condition = ">=" -> value >= rule.threshold
    [] rule.condition = "<=" -> value <= rule.threshold
    [] OTHER -> FALSE

\* the readings evaluated: every subset of the metric keys, with values below,
\* at and above each threshold
MetricKeys == {"temperature", "humidity", "wind_speed", "pressure", "rainfall"}
TemperatureValues == {-1, 0, 1, 39, 40, 41, 45}
HumidityValues == {19, 20, 21, 50, 89, 90, 91}
WindValues == {49, 50, 51, 60}
PressureValues == {979, 980, 981, 1039, 1040, 1041}
RainfallValues == {5}

Readings ==
  UNION { { [k \in D |->
               CASE k = "temperature" -> a
                 [] k = "humidity" -> b
                 [] k = "wind_speed" -> c
                 [] k = "pressure" -> d
                 [] OTHER -> e] :
            a \in TemperatureValues, b \in HumidityValues, c \in WindValues,
            d \in PressureValues, e \in RainfallValues } :
          D \in SUBSET MetricKeys }

\* process_message has extracted `values` and starts the loop of line 145
InitRules ==
  /\ BrokerInit
  /\ ConsumerInit
  /\ WireIdle
  /\ GlobalInit
  /\ FileIdle
  /\ reading \in Readings
  /\ ruleIdx = 1
  /\ alerts_triggered = <<>>
  /\ created = <<>>

\* lines 145-161: one iteration of `for rule in self.alert_rules`
CheckRule ==
  /\ ruleIdx \in 1..Len(ALERT_RULES)
  /\ LET rule == ALERT_RULES[ruleIdx]
     IN IF rule.metric \in DOMAIN reading /\ check(rule, reading[rule.metric])
          THEN /\ created' = Append(created,
                               [alert_type |-> rule.name, severity |-> rule.severity,
                                metric_name |-> rule.metric,
                                metric_value |-> reading[rule.metric],
                                threshold |-> rule.threshold])
               /\ alerts_triggered' = Append(alerts_triggered, rule.name)
          ELSE UNCHANGED <<created, alerts_triggered>>
  /\ ruleIdx' = ruleIdx + 1
  /\ UNCHANGED <<registry, lock, running, pc, locals, history, reading, consumerVars, otherVars>>

NextRules == CheckRule

SpecRules == InitRules /\ [][NextRules]_vars

\* ------------------------------------------------------- streaming consumer
\* kafka_consumer.py line 102: topic = "sensor_data"
ConsumerTopic == "A"
Producers == {"t1"}
\* what a producer publishes: a dict, a falsy non-dict (0, "", []), or an object
\* whose truth value cannot be taken (bool() raises, as for an array)
ConsumerPayloads == {"dict", "falsy", "ambiguous"}

\* line 368, `if message:` raises
TruthRaises(m) == m.kind = "ambiguous"

\* The fields of a dict message.  The broker never looks into a payload, so
\* they are drawn when process_message first reads them.
\* ident: which of sensor_id and timestamp the message has;
\* nonnumeric: the metrics whose value is not a number (a string, None)
Idents == {"full", "no_sensor_id", "no_timestamp"}
ConsumerReadings ==
  { [k \in {"rainfall"} |-> 5],
    [k \in {"temperature", "humidity"} |-> IF k = "temperature" THEN 45 ELSE 50],
    [k \in {"temperature", "wind_speed"} |-> IF k = "temperature" THEN 45 ELSE 60],
    [k \in {"temperature", "pressure"} |-> IF k = "temperature" THEN 40 ELSE 979] }
Bodies ==
  UNION { { [ident |-> i, values |-> v, nonnumeric |-> b] :
            b \in SUBSET (DOMAIN v \cap {"wind_speed"}) } :
          i \in Idents, v \in ConsumerReadings }

\* variant of SensorIdOf: message.get('sensor_id') without the default
SensorIdOf_nodefault(b) == IF b.ident = "no_sensor_id" THEN "None" ELSE "S1"

\* lines 134 and 189: message.get('sensor_id', 'unknown')
SensorIdOf(b) == IF b.ident = "no_sensor_id" THEN "unknown" ELSE "S1"

\* variant of MetricPresent: the metric is read without the test
MetricPresent_unchecked(rule, values) == TRUE

\* line 146: rule.metric in values
MetricPresent(rule, values) == rule.metric \in DOMAIN values

\* the outcomes of save_reading_to_database: the commit of line 286 succeeds; a
\* statement of lines 189-287 raises (caught in line 291); get_session raises,
\* and then line 293 raises UnboundLocalError, which line 175 catches
SaveOutcomes == {"committed", "failed", "no_session"}

\* the frame of process_message of the previous message is gone
ForgetMessage ==
  /\ body' = NoBody
  /\ reading' = <<>>
  /\ ruleIdx' = 0
  /\ alerts_triggered' = <<>>
  /\ created' = <<>>
  /\ alert_stored' = <<>>
  /\ save_calls' = 0
  /\ raised' = FALSE

\* start(), lines 353-364: the log lines, then the loop is entered
KcStart(c) ==
  /\ pc[c] = "created"
  /\ pc' = [pc EXCEPT ![c] = "kc_poll"]
  /\ UNCHANGED <<registry, lock, running, locals, history, ruleVars, consumerVars, otherVars>>

\* line 366: self.kafka_broker.consume(self.topic, timeout=0.5) looks the topic up
KcConsume(c) ==
  /\ pc[c] = "kc_poll"
  /\ topic' = [topic EXCEPT ![c] = ConsumerTopic]
  /\ IF ConsumerTopic \in Keys
       THEN /\ holds' = [holds EXCEPT ![c] = topics[ConsumerTopic]]
            /\ pc' = [pc EXCEPT ![c] = "con_get"]
       ELSE /\ pc' = [pc EXCEPT ![c] = "con_new"]
            /\ UNCHANGED holds
  /\ ForgetMessage
  /\ UNCHANGED <<registry, lock, running, msg, cb, nested, snap, history, counters,
                 evaluated, returned, unsaved, malformed, summary,
                 otherVars>>

\* lines 366-372: the get of consume returns; `if message:`; with no message, or
\* a falsy one, the loop sleeps and polls again; a truth test that raises is
\* caught by line 378, which logs the error
KcGet(c) ==
  /\ pc[c] = "con_get"
  /\ c \in Consumers
  /\ LET r == GetResult(queue[topic[c]][holds[c]])
     IN /\ queue' = [queue EXCEPT ![topic[c]][holds[c]] = r.q]
        /\ consumed' = IF r.ok
                         THEN [consumed EXCEPT ![topic[c]] = Append(@, r.m)]
                         ELSE consumed
        /\ IF r.ok /\ TruthRaises(r.m)
             THEN /\ pc' = [pc EXCEPT ![c] = "kc_finally"]
                  /\ UNCHANGED msg
             ELSE IF r.ok /\ Truthy(r.m)
               THEN /\ pc' = [pc EXCEPT ![c] = "kc_process"]
                    /\ msg' = [msg EXCEPT ![c] = r.m]
               ELSE /\ pc' = [pc EXCEPT ![c] = "kc_poll"]
                    /\ UNCHANGED msg
  /\ topic' = [topic EXCEPT ![c] = NoTopic]
  /\ holds' = [holds EXCEPT ![c] = NoThread]
  /\ UNCHANGED <<topics, subscribers, lock, running, cb, nested, snap, nextId,
                 published, dropped, invoked, ruleVars, consumerVars, otherVars>>

\* process_message, lines 131-144: the counter, the identity fields with their
\* defaults, `values`, and the empty alerts_triggered
KcEnter(c, b) ==
  /\ pc[c] = "kc_process"
  /\ processed_count' = processed_count + 1
  /\ body' = b
  /\ reading' = b.values
  /\ ruleIdx' = 1
  /\ alerts_triggered' = <<>>
  /\ created' = <<>>
  /\ evaluated' = [evaluated EXCEPT ![msg[c].id] = @ + 1]
  /\ malformed' = IF b.ident = "full" THEN malformed ELSE malformed + 1
  /\ pc' = [pc EXCEPT ![c] = "kc_rules"]
  /\ UNCHANGED <<registry, lock, running, locals, history, alert_count,
                 readings_saved, alert_stored, save_calls, raised, returned,
                 unsaved, summary,
                 otherVars>>

\* variant of CreateAlertRaises: a failed commit is not caught
CreateAlertRaises_uncaught(ok) == ~ok

\* create_alert, lines 326-346: whether the call raises to process_message when
\* its commit succeeded (ok) or failed; the except of line 345 catches the failure
CreateAlertRaises(ok) == FALSE

\* save_reading_to_database, lines 185-295: whether the call raises to
\* process_message; only the UnboundLocalError of line 293 does
SaveRaises(o) == o = "no_session"

\* variant of ProcessMessageRaises: process_message without its except clause
ProcessMessageRaises_uncaught(r) == r

\* process_message, lines 131 and 175-176: whether the call raises to start() when
\* an exception was raised inside (r); the except clause logs it
ProcessMessageRaises(r) == FALSE

\* where start() goes on when process_message has ended: the next poll of the
\* loop, or the `except Exception` of line 378
ExitPc(r) == IF ProcessMessageRaises(r) THEN "kc_finally" ELSE "kc_poll"

\* lines 145-161, one iteration of `for rule in self.alert_rules`: the metric
\* of a rule that is present is read (KeyError if it is not there) and compared
\* (TypeError for a non-numeric value); create_alert is called for a rule that
\* fires; an exception ends process_message in its except clause (line 175)
KcRule(c) ==
  /\ pc[c] = "kc_rules"
  /\ \E ok \in BOOLEAN :
       LET rule == ALERT_RULES[ruleIdx]
           present == MetricPresent(rule, reading)
           error == present /\ (\/ rule.metric \notin DOMAIN reading
                                \/ rule.metric \in body.nonnumeric)
           fires == present /\ ~error /\ check(rule, reading[rule.metric])
           raises == error \/ (fires /\ CreateAlertRaises(ok))
       IN /\ IF fires
               THEN /\ created' = Append(created,
                         [sensor_id |-> SensorIdOf(body),
                          alert_type |-> rule.name, severity |-> rule.severity,
                          metric_name |-> rule.metric,
                          metric_value |-> reading[rule.metric],
                          threshold |-> rule.threshold])
                    /\ alert_stored' = Append(alert_stored, ok)
               ELSE UNCHANGED <<created, alert_stored>>
          /\ IF fires /\ ~raises
               THEN /\ alerts_triggered' = Append(alerts_triggered, rule.name)
                    /\ alert_count' = alert_count + 1
               ELSE UNCHANGED <<alerts_triggered, alert_count>>
          /\ IF raises
               THEN /\ raised' = TRUE
                    /\ unsaved' = unsaved + 1
                    /\ returned' = returned \cup {msg[c].id}
                    /\ msg' = [msg EXCEPT ![c] = NoMsg]
                    /\ pc' = [pc EXCEPT ![c] = ExitPc(TRUE)]
                    /\ UNCHANGED ruleIdx
               ELSE /\ ruleIdx' = ruleIdx + 1
                    /\ pc' = [pc EXCEPT ![c] = IF ruleIdx = Len(ALERT_RULES)
                                                 THEN "kc_save" ELSE "kc_rules"]
                    /\ UNCHANGED <<raised, unsaved, returned, msg>>
  /\ UNCHANGED <<registry, lock, running, topic, cb, nested, holds, snap, history,
                 reading, processed_count, readings_saved, body, save_calls,
                 evaluated, malformed, summary,
                 otherVars>>

\* variant of KcSave: the reading is saved only when no rule has fired
KcSave_unlessAlert(c) ==
  /\ pc[c] = "kc_save"
  /\ save_calls' = IF alerts_triggered = <<>> THEN save_calls + 1 ELSE save_calls
  /\ readings_saved' = IF alerts_triggered = <<>> THEN readings_saved + 1
                                                  ELSE readings_saved
  /\ unsaved' = IF alerts_triggered = <<>> THEN unsaved ELSE unsaved + 1
  /\ returned' = returned \cup {msg[c].id}
  /\ msg' = [msg EXCEPT ![c] = NoMsg]
  /\ pc' = [pc EXCEPT ![c] = "kc_poll"]
  /\ UNCHANGED <<registry, lock, running, topic, cb, nested, holds, snap, history,
                 ruleVars, processed_count, alert_count, body, alert_stored,
                 raised, evaluated, malformed, summary,
                 otherVars>>

\* variant of SavedIncrement: a failed save takes back one saved reading
SavedIncrement_rollback(o) == IF o = "committed" THEN 1 ELSE -1

\* variant of SavedIncrement: the save is counted whatever its outcome
SavedIncrement_always(o) == 1

\* line 289: readings_saved += 1, reached only after the commit of line 286
SavedIncrement(o) == IF o = "committed" THEN 1 ELSE 0

\* lines 164-176: save_reading_to_database (lines 178-295), the [STATS] line,
\* and the end of process_message
KcSave(c) ==
  /\ pc[c] = "kc_save"
  /\ save_calls' = save_calls + 1
  /\ \E o \in SaveOutcomes :
       /\ readings_saved' = readings_saved + SavedIncrement(o)
       /\ unsaved' = IF o = "committed" THEN unsaved ELSE unsaved + 1
       /\ raised' = SaveRaises(o)
       /\ pc' = [pc EXCEPT ![c] = ExitPc(SaveRaises(o))]
  /\ returned' = returned \cup {msg[c].id}
  /\ msg' = [msg EXCEPT ![c] = NoMsg]
  /\ UNCHANGED <<registry, lock, running, topic, cb, nested, holds, snap, history,
                 ruleVars, processed_count, alert_count, body, alert_stored,
                 evaluated, malformed, summary,
                 otherVars>>

\* the positions of the loop of lines 364-372
LoopPcs == {"kc_poll", "con_new", "con_get", "kc_process", "kc_rules", "kc_save"}

\* Ctrl+C: KeyboardInterrupt is raised in the main thread wherever it is in the
\* loop; no `except Exception` catches it; lines 374-376 log the [FINAL] counters
Interrupt(c) ==
  /\ pc[c] \in LoopPcs
  /\ summary' = <<processed_count, readings_saved, alert_count>>
  /\ unsaved' = IF pc[c] \in {"kc_rules", "kc_save"} THEN unsaved + 1 ELSE unsaved
  /\ pc' = [pc EXCEPT ![c] = "kc_finally"]
  /\ topic' = [topic EXCEPT ![c] = NoTopic]
  /\ holds' = [holds EXCEPT ![c] = NoThread]
  /\ UNCHANGED <<registry, lock, running, msg, cb, nested, snap, history, ruleVars,
                 counters, body, alert_stored, save_calls, raised, evaluated,
                 returned, malformed,
                 otherVars>>

\* lines 381-383, finally: self.kafka_broker.stop() (kafka_broker.py line 88)
KcFinally(c) ==
  /\ pc[c] = "kc_finally"
  /\ running' = FALSE
  /\ pc' = [pc EXCEPT ![c] = "kc_stopped"]
  /\ UNCHANGED <<registry, lock, locals, history, ruleVars, consumerVars, otherVars>>

\* a step of the consumer's main thread
ConsumerStep(c) ==
  \/ KcStart(c)
  \/ KcConsume(c)
  \/ ConsumeInsert(c)
  \/ KcGet(c)
  \/ \E b \in Bodies : KcEnter(c, b)
  \/ KcRule(c)
  \/ KcSave(c)
  \/ KcFinally(c)

\* a producer thread creates the topic, publishes, or stops the broker
ProducerStep(th) ==
  \/ CreateTopicEnter(th, ConsumerTopic)
  \/ CreateTopicAssign(th)
  \/ CreateTopicExit(th)
  \/ \E k \in ConsumerPayloads : PublishEnter(th, ConsumerTopic, k, MaxConsumerMsgs)
  \/ PublishPut(th)
  \/ Stop(th)

\* One producer and the streaming consumer on the consumer's topic.
NextConsumer ==
  \/ \E th \in Producers : ProducerStep(th)
  \/ \E c \in Consumers : ConsumerStep(c)
  \/ \E c \in Consumers : Interrupt(c)

SpecConsumer == Init /\ [][NextConsumer]_vars

\* --------------------------------------------------------- consumer counters
\* The consumer alone, fed one dict message per iteration: readings that
\* trigger no rule, one rule, and one rule on each of the four metrics (on
\* either side of the thresholds).
CounterReadings ==
  { [k \in {"rainfall"} |-> 5],
    [k \in {"temperature"} |-> 45],
    [k \in {"temperature", "humidity", "wind_speed", "pressure"} |->
       CASE k = "temperature" -> 41 [] k = "humidity" -> 91
         [] k = "wind_speed" -> 51 [] OTHER -> 979],
    [k \in {"temperature", "humidity", "wind_speed", "pressure"} |->
       CASE k = "temperature" -> -1 [] k = "humidity" -> 19
         [] k = "wind_speed" -> 51 [] OTHER -> 1041] }
CounterBodies ==
  { [ident |-> "full", values |-> v, nonnumeric |-> {}] : v \in CounterReadings }

\* lines 366-368: consume returns the next dict message of the topic
KcDeliver(c) ==
  /\ pc[c] = "kc_poll"
  /\ nextId <= MaxConsumerMsgs
  /\ LET m == Stamp([id |-> nextId, kind |-> "dict", by |-> "t1", stamped |-> FALSE])
     IN /\ msg' = [msg EXCEPT ![c] = m]
        /\ consumed' = [consumed EXCEPT ![ConsumerTopic] = Append(@, m)]
  /\ nextId' = nextId + 1
  /\ pc' = [pc EXCEPT ![c] = "kc_process"]
  /\ ForgetMessage
  /\ UNCHANGED <<registry, lock, running, topic, cb, nested, holds, snap,
                 published, dropped, invoked, counters, evaluated, returned,
                 unsaved, malformed, summary, otherVars>>

NextCounters ==
  \E c \in Consumers :
    \/ KcStart(c)
    \/ KcDeliver(c)
    \/ \E b \in CounterBodies : KcEnter(c, b)
    \/ KcRule(c)
    \/ KcSave(c)

SpecCounters == Init /\ [][NextCounters]_vars

\* ------------------------------------------------------------- wire shapes
\* The two shapes of a sensor message: metric keys at top level (as in the
\* test block of kafka_broker.py, lines 111-115) or under 'value'.
Identity == [sensor_id |-> "S1", timestamp |-> "T1"]
Flat(r) == r @@ Identity
Nested(r) == Identity @@ ("value" :> r)
WireMessages == {Flat(r) : r \in Readings} \cup {Nested(r) : r \in Readings}

\* process_message, lines 138-141
ValuesOf(m) == IF "value" \in DOMAIN m THEN m["value"] ELSE m

\* the metric columns of FactWeatherReading
FactMetrics == {"temperature", "humidity", "pressure", "wind_speed", "rainfall"}

\* save_reading_to_database, line 263: values = message.get('value', {})
SavedValues(m) == IF "value" \in DOMAIN m THEN m["value"] ELSE <<>>

\* save_reading_to_database, lines 271-276: values.get(<metric>, 0.0)
FactColumns(m) ==
  [k \in FactMetrics |->
     IF k \in DOMAIN SavedValues(m) THEN SavedValues(m)[k] ELSE 0]

\* process_message is called with a message of either shape
InitWire ==
  /\ BrokerInit
  /\ RuleIdle
  /\ ConsumerInit
  /\ GlobalInit
  /\ FileIdle
  /\ wire \in WireMessages
  /\ stored = NoRecord

\* lines 138-143: `values` is extracted and the rule loop begins
WireExtract ==
  /\ ruleIdx = 0
  /\ wire # NoWire
  /\ reading' = ValuesOf(wire)
  /\ ruleIdx' = 1
  /\ UNCHANGED <<registry, lock, running, pc, locals, history, alerts_triggered,
                 created, consumerVars, otherVars>>

\* line 164, lines 263-286: the fact row is built from the message and added
WireSave ==
  /\ ruleIdx = Len(ALERT_RULES) + 1
  /\ stored = NoRecord
  /\ stored' = FactColumns(wire)
  /\ UNCHANGED <<registry, lock, running, pc, locals, history, ruleVars,
                 consumerVars, wire, globalVars, fileVars>>

NextWire == WireExtract \/ CheckRule \/ WireSave

SpecWire == InitWire /\ [][NextWire]_vars

\* ----------------------------------------------------------------- get_broker
\* the threads that call get_broker: the consumer's main (kafka_consumer.py),
\* the monitor (monitor_pipeline.py line 78) and a producer
Getters == Callers \cup Consumers

\* the frame of every action of get_broker
GbFrame ==
  UNCHANGED <<registry, lock, running, pc, locals, history, ruleVars,
              consumerVars, wireVars, fileVars>>

\* line 97: `if _broker is None`
GbMissing(b) == b = None

\* line 97, the global is read and tested
GbTest(th) ==
  /\ gb[th] = "out"
  /\ gb' = [gb EXCEPT ![th] = IF GbMissing(_broker) THEN "new" ELSE "ret"]
  /\ UNCHANGED <<_broker, instances, fresh, got>>
  /\ GbFrame

\* line 98, right-hand side: KafkaBroker() runs __init__ (lines 15-19)
GbConstruct(th) ==
  /\ gb[th] = "new"
  /\ instances' = instances + 1
  /\ fresh' = [fresh EXCEPT ![th] = instances + 1]
  /\ gb' = [gb EXCEPT ![th] = "store"]
  /\ UNCHANGED <<_broker, got>>
  /\ GbFrame

\* line 98, the assignment to the global
GbStore(th) ==
  /\ gb[th] = "store"
  /\ _broker' = fresh[th]
  /\ fresh' = [fresh EXCEPT ![th] = None]
  /\ gb' = [gb EXCEPT ![th] = "ret"]
  /\ UNCHANGED <<instances, got>>
  /\ GbFrame

\* line 99: return _broker, the global as it is now
GbReturn(th) ==
  /\ gb[th] = "ret"
  /\ got' = [got EXCEPT ![th] = _broker]
  /\ gb' = [gb EXCEPT ![th] = "out"]
  /\ UNCHANGED <<_broker, instances, fresh>>
  /\ GbFrame

GetBroker(th) == GbTest(th) \/ GbConstruct(th) \/ GbStore(th) \/ GbReturn(th)

NextGlobal == \E th \in Getters : GetBroker(th)

SpecGlobal == Init /\ [][NextGlobal]_vars

\* -------------------------------------------------------------- file consumer
\* streaming_consumer.py: StreamingConsumer over one JSONL file.  Its
\* ALERT_RULES (lines 77-85) and AlertRule.check (lines 64-74) are the same as
\* those of kafka_consumer.py.
\*
\* A line is invalid JSON, or a record: one that triggers a rule, one that
\* triggers none, and one that triggers HIGH_TEMP and then holds a string
\* where HIGH_WIND compares a number.
InvalidJson == [values |-> <<>>, nonnumeric |-> {"json"}]
Records ==
  { [values |-> [k \in {"temperature"} |-> 45], nonnumeric |-> {}],
    [values |-> [k \in {"rainfall"} |-> 5], nonnumeric |-> {}],
    [values |-> [k \in {"temperature", "wind_speed"} |->
                   IF k = "temperature" THEN 45 ELSE 60],
     nonnumeric |-> {"wind_speed"}] }
Lines == Records \cup {InvalidJson}
Files == UNION { [1..n -> Lines] : n \in 1..MaxLines }

\* the rules whose check raises on the record: the metric is present (line
\* 128) and its value is not a number (lines 64-74)
RaisingRules(rec) ==
  {i \in 1..Len(ALERT_RULES) :
     /\ ALERT_RULES[i].metric \in DOMAIN rec.values
     /\ ALERT_RULES[i].metric \in rec.nonnumeric}

\* process_record raises: it has no try / except of its own
RecordRaises(rec) == RaisingRules(rec) # {}

\* the rules process_record creates an alert for: those that fire before
\* the first one that raises (lines 127-140)
RecordAlerts(rec) ==
  {i \in 1..Len(ALERT_RULES) :
     /\ \A j \in RaisingRules(rec) : i < j
     /\ ALERT_RULES[i].metric \in DOMAIN rec.values
     /\ check(ALERT_RULES[i], rec.values[ALERT_RULES[i].metric])}

\* StreamingConsumer.__init__ (line 106) and a file to process
InitFile ==
  /\ BrokerInit
  /\ RuleIdle
  /\ ConsumerInit
  /\ WireIdle
  /\ GlobalInit
  /\ file \in Files
  /\ processed_lines = {}
  /\ line_num = 0
  /\ line_evals = [n \in 1..Len(file) |-> 0]

FileFrame ==
  UNCHANGED <<registry, lock, running, pc, locals, history, ruleVars,
              consumerVars, wireVars, globalVars, file>>

\* the next position of the loop of line 215: the next line, or the end of
\* process_jsonl and of process_file
NextLine(n) == IF n < Len(file) THEN n + 1 ELSE 0

\* process_file, lines 199-203, and process_jsonl, lines 214-215: the file is
\* opened and the enumeration starts at line 1
ProcessFile ==
  /\ line_num = 0
  /\ line_num' = 1
  /\ UNCHANGED <<processed_lines, line_evals>>
  /\ FileFrame

\* process_jsonl, lines 216-228: one iteration of the loop.  Only
\* JSONDecodeError is caught inside the loop (line 227); any other exception
\* leaves process_jsonl and is logged by process_file (lines 209-210)
ProcessLine ==
  /\ line_num \in 1..Len(file)
  /\ LET n == line_num
         rec == file[n]
     IN IF n \in processed_lines
          THEN /\ line_num' = NextLine(n)
               /\ UNCHANGED <<processed_lines, line_evals>>
          ELSE IF rec = InvalidJson
            THEN /\ line_num' = NextLine(n)
                 /\ UNCHANGED <<processed_lines, line_evals>>
            ELSE /\ line_evals' = [line_evals EXCEPT ![n] =
                                     IF @ < MaxEvals THEN @ + 1 ELSE @]
                 /\ IF RecordRaises(rec)
                      THEN /\ line_num' = 0
                           /\ UNCHANGED processed_lines
                      ELSE /\ processed_lines' = processed_lines \cup {n}
                           /\ line_num' = NextLine(n)
  /\ FileFrame

NextFile == ProcessFile \/ ProcessLine

SpecFile == InitFile /\ [][NextFile]_vars

\* process_file is called again and again (run_streaming_consumer line 307,
\* then DataFileHandler.on_modified line 278) and a call in progress runs on
FairSpecFile == SpecFile /\ WF_vars(NextFile)

\* ------------------------------------------------------------------- helpers
\* the identities of the messages of a sequence
Ids(q) == {q[i].id : i \in 1..Len(q)}

PendingIds == UNION {Ids(queue[t][th]) : t \in TopicNames, th \in Threads}
ConsumedIds == UNION {Ids(consumed[t]) : t \in TopicNames}
PublishedTo(t) == {x \in published : x[2] = t}

\* ------------------------------------------------------------------------ C1
\* C1: in every reachable state the number of pending messages of each topic's
\* queue is at most the capacity the queue was created with.
C1_QueueWithinCapacity ==
  \A t \in TopicNames, th \in Threads : Len(queue[t][th]) <= maxsize

\* a publisher holds a message for a queue that is at capacity
C1_Witness ==
  \E th \in Callers :
    /\ pc[th] = "pub_put"
    /\ Len(Pending(topic[th])) = maxsize

\* ------------------------------------------------------------------------ C2
\* C2: a publish that finds the queue full at the expiry of its timeout returns
\* False and leaves the queue as it was when the publish began; a message so
\* dropped is never pending, never consumed and never counted as published.
C2_DropStep(th) ==
  (pc[th] = "pub_put" /\ pc'[th] = "idle" /\ Len(Pending(topic[th])) >= maxsize)
    => /\ Stamp(msg[th]) \in dropped'
       /\ queue' = queue
       /\ topics' = topics
       /\ Pending(topic[th]) = snap[th]

C2_DroppedIsGone ==
  \A m \in dropped :
    /\ m.id \notin PendingIds
    /\ m.id \notin ConsumedIds
    /\ \A x \in published : x[1].id # m.id
    /\ \A y \in invoked : y[2].id # m.id

C2_FullPublishDrops ==
  /\ [](C2_DroppedIsGone)
  /\ [][\A th \in Callers : C2_DropStep(th)]_vars

\* a message was dropped and the queue it was meant for has been drained since
C2_Witness ==
  /\ dropped # {}
  /\ \E t \in TopicNames : Len(consumed[t]) = maxsize /\ Pending(t) = <<>>

\* ------------------------------------------------------------------------ C3
\* C3: a publish on a topic that is not in the registry ends with the message
\* published (True returned), and a subscribe on such a topic ends with the
\* callback registered.
C3_AbsentTopicIsCreated ==
  /\ \A th \in Callers, i \in 1..MaxPollMsgs :
       (pc[th] = "ct_lock" /\ nested[th] = "publish" /\ msg[th].id = i)
         ~> (\E x \in published : x[1].id = i)
  /\ \A th \in Callers, t \in TopicNames :
       (pc[th] = "ct_lock" /\ nested[th] = "subscribe" /\ topic[th] = t)
         ~> (subscribers[t] # <<>>)

\* ------------------------------------------------------------------------ C4
\* C4: every call of a broker operation eventually returns.
C4_EveryCallReturns ==
  \A th \in Callers : (pc[th] # "idle") ~> (pc[th] = "idle")

\* ------------------------------------------------------------------------ C5
\* C5: once a callback is subscribed to a topic of a running broker, a message
\* published to the topic leaves the queue (to a callback, or to a competing
\* poller) or is dropped, or the broker is stopped, without any caller having
\* to consume or to start a loop.
C5_SubscribedIsDelivered ==
  \A i \in 1..MaxPollMsgs :
    (\E th \in Callers :
       /\ pc[th] = "pub_put" /\ msg[th].id = i
       /\ subscribers[topic[th]] # <<>>
       /\ running)
      ~> (i \in ConsumedIds \/ (\E m \in dropped : m.id = i) \/ ~running)

\* ------------------------------------------------------------------------ C6
\* C6: no message is dequeued twice, and a dequeued message is no longer
\* pending: each enqueued message goes to at most one consumer.
C6_AtMostOneConsumer ==
  /\ \A t \in TopicNames : Cardinality(Ids(consumed[t])) = Len(consumed[t])
  /\ \A t, u \in TopicNames : t # u => Ids(consumed[t]) \cap Ids(consumed[u]) = {}
  /\ PendingIds \cap ConsumedIds = {}

\* a direct consume and a polling loop wait on the same queue, which has a
\* message, after another message of it was consumed
C6_Witness ==
  \E th \in Callers, p \in Pollers :
    /\ pc[th] = "con_get" /\ pc[p] = "con_get"
    /\ topic[th] = topic[p]
    /\ holds[th] = holds[p]
    /\ queue[topic[p]][holds[p]] # <<>>
    /\ consumed[topic[p]] # <<>>

\* ------------------------------------------------------------------------ C7
\* C7: per topic, at most as many messages were consumed as publishes returned
\* True, and every consumed message was published (True) to that topic.
C7_ConsumedWerePublished ==
  \A t \in TopicNames :
    /\ Len(consumed[t]) <= Cardinality(PublishedTo(t))
    /\ \A i \in 1..Len(consumed[t]) : <<consumed[t][i], t>> \in published

\* messages were consumed from both topics and no further publish can be made
C7_Witness ==
  /\ \A t \in TopicNames : consumed[t] # <<>>
  /\ nextId > MaxMsgs

\* ------------------------------------------------------------------------ C8
\* C8: within a topic, the messages of one producer are consumed in the order
\* in which that producer published them.
C8_ProducerFifo ==
  \A t \in TopicNames : \A i, j \in 1..Len(consumed[t]) :
    (i < j /\ consumed[t][i].by = consumed[t][j].by)
      => consumed[t][i].id < consumed[t][j].id

\* ------------------------------------------------------------------------ C9
\* C9: a create_topic on a name that is in the registry leaves the pending
\* messages, their order, the subscriber list and the registry as they were.
C9_CreateTopicIdempotent ==
  [][\A th \in Callers, t \in TopicNames :
       (pc[th] \in {"ct_assign", "ct_exit"} /\ pc'[th] # pc[th] /\ topic[th] = t /\ t \in Keys)
         => /\ Pending(t)' = Pending(t)
            /\ subscribers' = subscribers
            /\ Keys' = Keys]_vars

\* create_topic is about to return on a topic with a pending message and a subscriber
C9_Witness ==
  \E th \in Callers :
    /\ pc[th] = "ct_exit"
    /\ Pending(topic[th]) # <<>>
    /\ subscribers[topic[th]] # <<>>

\* ----------------------------------------------------------------------- C10
\* C10: for every reading, the rules triggered are exactly the rules of the
\* 7-rule table whose metric is present and whose comparison holds ('>' and
\* '<' strict), in table order; {temperature: 45, humidity: 50} yields only
\* HIGH_TEMP (CRITICAL), {temperature: 45, wind_speed: 60} yields HIGH_TEMP
\* then HIGH_WIND.
Holds(r, k, cmp, limit) ==
  /\ k \in DOMAIN r
  /\ IF cmp = "above" THEN r[k] > limit ELSE r[k] < limit

If(name, cond) == IF cond THEN <<name>> ELSE <<>>

TableTriggered(r) ==
  If("HIGH_TEMP", Holds(r, "temperature", "above", 40)) \o
  If("LOW_TEMP", Holds(r, "temperature", "below", 0)) \o
  If("LOW_HUMIDITY", Holds(r, "humidity", "below", 20)) \o
  If("HIGH_HUMIDITY", Holds(r, "humidity", "above", 90)) \o
  If("HIGH_WIND", Holds(r, "wind_speed", "above", 50)) \o
  If("LOW_PRESSURE", Holds(r, "pressure", "below", 980)) \o
  If("HIGH_PRESSURE", Holds(r, "pressure", "above", 1040))

RulesDone == ruleIdx = Len(ALERT_RULES) + 1

C10_RulesTriggered ==
  RulesDone =>
    /\ alerts_triggered = TableTriggered(reading)
    /\ Len(created) = Len(alerts_triggered)
    /\ \A i \in 1..Len(created) :
         /\ created[i].alert_type = alerts_triggered[i]
         /\ created[i].severity =
              (IF created[i].alert_type = "HIGH_TEMP" THEN "CRITICAL" ELSE "WARNING")
         /\ created[i].metric_value = reading[created[i].metric_name]
    /\ (reading = [temperature |-> 45, humidity |-> 50])
         => alerts_triggered = <<"HIGH_TEMP">>
    /\ (reading = [temperature |-> 45, wind_speed |-> 60])
         => alerts_triggered = <<"HIGH_TEMP", "HIGH_WIND">>
    /\ \A i \in 1..Len(ALERT_RULES) :
         (/\ ALERT_RULES[i].metric \in DOMAIN reading
          /\ reading[ALERT_RULES[i].metric] = ALERT_RULES[i].threshold)
           => \A j \in 1..Len(alerts_triggered) : alerts_triggered[j] # ALERT_RULES[i].name

\* the loop has ended on a reading that triggers two rules and has a third
\* metric exactly at a threshold
C10_Witness ==
  /\ RulesDone
  /\ reading = [temperature |-> 45, wind_speed |-> 60, humidity |-> 20]
  /\ alerts_triggered = <<"HIGH_TEMP", "HIGH_WIND">>

\* ------------------------------------------------------- consumer helpers
\* process_message has ended for the message last taken, and the next poll has
\* not begun
Finished(c) == pc[c] = "kc_poll" /\ body # NoBody

\* the rules whose metric the reading of message body b lacks
RulesLacking(r) == {i \in 1..Len(ALERT_RULES) : ALERT_RULES[i].metric \notin DOMAIN r}

\* the first rule whose metric is present with a non-numeric value, or
\* Len(ALERT_RULES) + 1
FirstBadRule(b) ==
  LET bad == {i \in 1..Len(ALERT_RULES) :
                /\ ALERT_RULES[i].metric \in DOMAIN b.values
                /\ ALERT_RULES[i].metric \in b.nonnumeric}
  IN IF bad = {} THEN Len(ALERT_RULES) + 1
     ELSE CHOOSE i \in bad : \A j \in bad : i <= j

\* the names of the alerts in a sequence of create_alert calls
AlertTypes(cs) == [j \in 1..Len(cs) |-> cs[j].alert_type]

\* ----------------------------------------------------------------------- C11
\* C11: a rule whose metric the reading lacks raises no alert and no error, and
\* the rules after it are evaluated: an error in the rule loop is never at a
\* rule whose metric is missing, and for a reading without non-numeric values
\* process_message ends only after the loop has gone through all rules.
C11_MissingMetricSkipped ==
  \A c \in Consumers :
    /\ \A i \in RulesLacking(reading) :
         i < ruleIdx =>
           \A j \in 1..Len(created) : created[j].alert_type # ALERT_RULES[i].name
    /\ (raised /\ save_calls = 0) => ruleIdx \notin RulesLacking(reading)
    /\ (Finished(c) /\ body.nonnumeric = {}) => ruleIdx = Len(ALERT_RULES) + 1

\* process_message has ended on a reading that lacks the metrics of four
\* rules, after the two rules on either side of them fired
C11_Witness ==
  \E c \in Consumers :
    /\ Finished(c)
    /\ DOMAIN reading = {"temperature", "wind_speed"}
    /\ alerts_triggered = <<"HIGH_TEMP", "HIGH_WIND">>
    /\ ~raised

\* ----------------------------------------------------------------------- C12
\* C12: every message the consumer has taken from the broker and is done with
\* was evaluated by the rule loop exactly once, and is not pending again.
C12_EvaluatedExactlyOnce ==
  \A c \in Consumers :
    pc[c] \in LoopPcs =>
      \A i \in Ids(consumed[ConsumerTopic]) :
        /\ evaluated[i] <= 1
        /\ i \notin PendingIds
        /\ (i # msg[c].id) => evaluated[i] = 1

\* ----------------------------------------------------------------------- C13
\* the names of the rules that fire on the reading of message body b before
\* the first rule whose evaluation raises
TriggeredBefore(b) ==
  LET pre == SubSeq(ALERT_RULES, 1, FirstBadRule(b) - 1)
      fired == SelectSeq(pre, LAMBDA rule :
                 /\ rule.metric \in DOMAIN b.values
                 /\ check(rule, b.values[rule.metric]))
  IN [j \in 1..Len(fired) |-> fired[j].name]

\* C13: storing alerts and storing the reading are independent: when
\* process_message has ended, create_alert was attempted for every rule that
\* fired, whether or not the earlier attempts stored their alert, and
\* save_reading_to_database was called once whatever the outcome of those
\* attempts; the alerts were attempted whatever the outcome of the save.
C13_PersistenceIndependent ==
  \A c \in Consumers :
    Finished(c) =>
      /\ AlertTypes(created) = TriggeredBefore(body)
      /\ Len(alert_stored) = Len(created)
      /\ (FirstBadRule(body) > Len(ALERT_RULES)) => save_calls = 1

\* a message fired two rules, the first alert could not be stored, the second
\* was still attempted and stored, and the reading was saved
C13_Witness ==
  \E c \in Consumers :
    /\ Finished(c)
    /\ alert_stored = <<FALSE, TRUE>>
    /\ save_calls = 1
    /\ ~raised

\* ----------------------------------------------------------------------- C14
\* a step in which handling the current message fails: rule evaluation or the
\* save raises, the save does not commit, or an alert is not stored
FailureStep ==
  \/ raised' /\ ~raised
  \/ save_calls' = save_calls + 1 /\ readings_saved' = readings_saved
  \/ /\ Len(alert_stored') = Len(alert_stored) + 1
     /\ ~alert_stored'[Len(alert_stored')]

\* C14: a failure while handling a message never ends the consumer loop: the
\* step in which the failure happens leaves the consumer inside the loop (on
\* the next rule, on the save, or back at the poll) and the broker running.
C14_FailureKeepsLoop ==
  [][\A c \in Consumers :
       (pc[c] \in {"kc_rules", "kc_save"} /\ FailureStep) =>
         /\ pc'[c] \in LoopPcs
         /\ running' = running]_vars

\* after a message whose reading was not stored, the next message was
\* consumed, processed and saved
C14_Witness ==
  \E c \in Consumers :
    /\ Finished(c)
    /\ processed_count = 2
    /\ unsaved = 1
    /\ readings_saved = 1
    /\ save_calls = 1
    /\ ~raised

WellFormed(b) == b.ident = "full" /\ b.nonnumeric = {}

OwnProcessingStep(c) ==
  /\ pc[c] \in {"kc_process", "kc_rules", "kc_save"}
  /\ pc'[c] \in {"kc_rules", "kc_save", "kc_poll"}
  /\ \A th \in Threads \ {c} : pc'[th] = pc[th]
  /\ UNCHANGED <<registry, lock, running>>

\* C18: no step decreases processed_count, alert_count or readings_saved,
\* and a step that changes one of them is a step of the consumer's own
\* processing of a message, which raises it by one.
C18_CountersMonotone ==
  [][/\ processed_count' >= processed_count
     /\ alert_count' >= alert_count
     /\ readings_saved' >= readings_saved
     /\ (counters' # counters) =>
          /\ \E c \in Consumers : OwnProcessingStep(c)
          /\ processed_count' + alert_count' + readings_saved' =
               processed_count + alert_count + readings_saved + 1]_vars

\* all three counters have been raised, over two messages
C18_Witness ==
  /\ processed_count = 2
  /\ alert_count = 3
  /\ readings_saved = 2

\* ----------------------------------------------------------------------- C19
\* C19: when the consumer has stopped on an interrupt, every message whose
\* processing had begun was processed to the end of process_message: its
\* rule loop ran and its save was attempted before the loop exited.
C19_MessageFinishedBeforeExit ==
  \A c \in Consumers :
    (pc[c] = "kc_stopped" /\ summary # NoSummary) =>
      \A i \in 1..MaxConsumerMsgs : evaluated[i] >= 1 => i \in returned

\* ----------------------------------------------------------------------- C20
\* the lifecycle state of start(): CREATED, RUNNING, STOPPING, STOPPED
Lifecycle(c) ==
  CASE pc[c] = "created" -> 0
    [] pc[c] \in LoopPcs -> 1
    [] pc[c] = "kc_finally" -> 2
    [] OTHER -> 3

\* C20: the lifecycle never moves backwards, and whenever start() has left
\* its loop and finished, the broker was stopped and the final summary of
\* the counters was logged.
C20_StopAndSummaryOnExit ==
  /\ [][\A c \in Consumers : Lifecycle(c)' >= Lifecycle(c)]_vars
  /\ [](\A c \in Consumers :
         pc[c] = "kc_stopped" => (~running /\ summary # NoSummary))

\* ----------------------------------------------------------------------- C21
\* a polling loop that is not running: never started, or left for good
PollerGone(p) == pc[p] \in {"unstarted", "pl_done"}

\* C21: once stop() has been called, every polling loop that was started
\* leaves its loop and ends, without being joined, and a loop that has seen
\* the stop takes no further message and invokes no callback.
C21_PollersExitAfterStop ==
  /\ (~running) ~> (\A p \in Pollers : PollerGone(p))
  /\ [][\A p \in Pollers :
          pc[p] = "pl_done" =>
            (pc'[p] = "pl_done" /\ holds'[p] = NoThread /\ invoked' = invoked)]_vars

\* a loop that delivered a message has ended after stop()
C21_Witness ==
  \E p \in Pollers :
    /\ ~running
    /\ pc[p] = "pl_done"
    /\ invoked # {}

\* ----------------------------------------------------------------------- C22
\* the metric values a message carries, whatever its shape
MetricsOf(m) ==
  LET v == IF "value" \in DOMAIN m THEN m["value"] ELSE m
  IN [k \in DOMAIN v \cap MetricKeys |-> v[k]]

\* C22: a flat and a nested message with the same metric values trigger the
\* same alerts and persist the same metric values: once the reading is
\* saved, the alerts are those of the rule table on the metrics carried, and
\* every metric column of the stored row holds the value carried (0 for a
\* metric the message lacks), for either shape.
C22_ShapesEquivalent ==
  stored # NoRecord =>
    /\ alerts_triggered = TableTriggered(MetricsOf(wire))
    /\ \A k \in FactMetrics :
         stored[k] = (IF k \in DOMAIN MetricsOf(wire) THEN MetricsOf(wire)[k] ELSE 0)

\* ----------------------------------------------------------------------- C23
\* C23: every step that changes the topic registry or the subscriber
\* registry is taken by the thread that holds the lock, so the registries do
\* not change while get_stats iterates over them.
C23_RegistryUnderLock ==
  [][(topics' # topics \/ subscribers' # subscribers) =>
       \E th \in Threads : lock = th /\ pc'[th] # pc[th]]_vars

\* ----------------------------------------------------------------------- C24
\* a publish is at its put and the queue is full: the put is waiting for room
WaitingToPut(th) ==
  /\ pc[th] = "pub_put"
  /\ Len(Pending(topic[th])) = maxsize

\* C24: a thread whose publish waits for room on a full queue does not hold
\* the lock, so that the operations of other threads can go on meanwhile.
C24_LockFreeWhilePutWaits ==
  \A th \in Callers : WaitingToPut(th) => lock # th

\* ----------------------------------------------------------------------- C25
\* C25: a step that changes the running flag clears it and leaves the topic
\* registry, every queue, the subscriber lists and the lock as they were; on
\* a stopped broker a publish with room still enqueues its message and a
\* consume of a non-empty queue still returns its head.
C25_StopOnlyClearsRunning ==
  [][/\ (running' # running) =>
          (~running' /\ UNCHANGED <<topics, queue, subscribers, lock, history>>)
     /\ \A th \in Callers, t \in TopicNames :
          (~running /\ topic[th] = t /\ pc'[th] = "idle") =>
            /\ (pc[th] = "pub_put" /\ Len(Pending(t)) < maxsize) =>
                  Pending(t)' = Append(Pending(t), Stamp(msg[th]))
            /\ (pc[th] = "con_get" /\ Len(queue[t][holds[th]]) > 0) =>
                  consumed'[t] = Append(consumed[t], Head(queue[t][holds[th]]))]_vars

\* the broker was stopped with a full queue and a subscriber: both are still
\* there, and a consume is under way on the stopped broker
C25_Witness ==
  /\ ~running
  /\ \E t \in PollTopics :
       /\ Len(Pending(t)) = maxsize
       /\ Len(subscribers[t]) = 1
       /\ \E th \in Callers : pc[th] = "con_get" /\ topic[th] = t

\* ----------------------------------------------------------------------- C26
\* C26: every message a polling loop has removed from a topic queue was
\* passed to the loop's callback, whatever its payload.
C26_DequeuedIsDelivered ==
  \A t \in PollTopics :
    \A j \in 1..Len(consumed[t]) :
      \E x \in invoked : x[2] = consumed[t][j]

\* ----------------------------------------------------------------------- C27
\* C27: any two calls of get_broker that have returned, from whatever
\* threads, returned the same KafkaBroker instance.
C27_SingleBroker ==
  \A a, b \in Getters :
    (got[a] # None /\ got[b] # None) => got[a] = got[b]

\* ----------------------------------------------------------------------- C28
\* C28: in every state readings_saved is at most processed_count and
\* alert_count at most four times processed_count; one message triggers at
\* most four rules.
C28_CounterBounds ==
  /\ readings_saved <= processed_count
  /\ alert_count <= 4 * processed_count
  /\ Len(alerts_triggered) <= 4

\* two messages, each triggering a rule on all four metrics, were saved
C28_Witness ==
  /\ processed_count = 2
  /\ alert_count = 8
  /\ readings_saved = 2

\* ----------------------------------------------------------------------- C29
\* C29: over any sequence of process_file calls, a line whose record creates
\* alerts is evaluated at most once, also when its evaluation ends with an
\* error.
C29_AlertsAtMostOnce ==
  \A n \in 1..Len(file) :
    (file[n] # InvalidJson /\ RecordAlerts(file[n]) # {}) => line_evals[n] <= 1

\* ----------------------------------------------------------------------- C30
\* a line that is invalid JSON or whose record makes rule evaluation raise
BadLine(l) == l = InvalidJson \/ RecordRaises(l)

\* C30: with process_file called again and again, every valid line that
\* comes after a bad line of the file is eventually evaluated.
C30_BadLineDoesNotStarve ==
  \A n, k \in 1..MaxLines :
    (/\ n < k
     /\ k <= Len(file)
     /\ BadLine(file[n])
     /\ ~BadLine(file[k])) ~> (k <= Len(file) /\ line_evals[k] >= 1)

====
